---- MODULE Spec2Model ----
\* A model of the worldline crate (src/src/lib.rs) and of its command line
\* front end (src/src/main.rs): partial-precision dates, their parser and
\* formatter, and the date-sorted event store.
\*
\* Text is modelled as a sequence of one-character strings, so that parsing
\* and formatting are computed character by character as the code does.
EXTENDS Integers, Sequences, FiniteSets

VARIABLES
    arg,     \* SpecDate: the input handed to Date::new / Date::parse
    ret,     \* SpecDate: the outcome of the last Date call
    pc,      \* Spec: "start", "loaded", "failed", "exited", "panicked"
    file,    \* Spec: the worldline file, a sequence of lines
    events,  \* Spec: WorldLine.events
    last     \* Spec: the last WorldLine call, its arguments and its outcome

vars == <<arg, ret, pc, file, events, last>>

\* Overflow checks are on in a debug build and off in a release build.
Builds == {"debug", "release"}

\* slice::binary_search_by as the standard library implements it: with an
\* early return on Equal (Rust 1.52 to 1.81) or without one (from 1.82 on).
\* LazyCell needs Rust 1.80, so a build may have either.
SearchImpls == {"early_return", "branchless"}

\* ---------------------------------------------------------------- text

Digits == <<"0", "1", "2", "3", "4", "5", "6", "7", "8", "9">>

IsDigit(c) == \E i \in 1..10 : Digits[i] = c

DigitVal(c) == (CHOOSE i \in 1..10 : Digits[i] = c) - 1

\* char::is_whitespace restricted to the characters the model writes
IsSpace(c) == c \in {" ", "\t"}

\* The byte value of the characters descriptions are written with
\* (String's Ord compares bytes).
CharCode(c) ==
    CASE c = "\t" -> 9
      [] c = " " -> 32
      [] c = "-" -> 45
      [] IsDigit(c) -> 48 + DigitVal(c)
      [] c = "a" -> 97
      [] c = "b" -> 98
      [] c = "x" -> 120
      [] OTHER -> 127

RECURSIVE StrLt(_, _)
\* <str as Ord>::lt: lexicographic on bytes, a proper prefix is smaller
StrLt(s, t) ==
    IF t = <<>> THEN FALSE
    ELSE IF s = <<>> THEN TRUE
    ELSE IF CharCode(Head(s)) # CharCode(Head(t))
         THEN CharCode(Head(s)) < CharCode(Head(t))
    ELSE StrLt(Tail(s), Tail(t))

RECURSIVE ParseDigits(_)
\* str::parse on a run of decimal digits
ParseDigits(s) ==
    IF s = <<>> THEN 0
    ELSE 10 * ParseDigits(SubSeq(s, 1, Len(s) - 1)) + DigitVal(s[Len(s)])

\* str::parse::<i32> on the year group: an optional '-' and digits
ParseInt(s) ==
    IF s # <<>> /\ Head(s) = "-" THEN 0 - ParseDigits(Tail(s)) ELSE ParseDigits(s)

RECURSIVE IntToString(_)
\* to_string of a non-negative integer
IntToString(n) ==
    IF n < 10 THEN <<Digits[n + 1]>>
    ELSE IntToString(n \div 10) \o <<Digits[(n % 10) + 1]>>

RECURSIVE PadLeft(_, _, _)
\* format!("{:c>w}"): pad on the left up to width w, never truncating
PadLeft(s, w, c) == IF Len(s) >= w THEN s ELSE PadLeft(<<c>> \o s, w, c)

Abs(n) == IF n < 0 THEN 0 - n ELSE n

\* ---------------------------------------------------------------- Date

MONTH_LENGTHS == <<31, 28, 31, 30, 31, 30, 31, 31, 30, 31, 30, 31>>

MkDate(y, m, d) == [year |-> y, month |-> m, day |-> d]

NoDate == MkDate(0, 0, 0)

\* A Result<Date, String> / a call that may panic, in one shape
Outcome(ok, panic, err, date) ==
    [ok |-> ok, panic |-> panic, err |-> err, date |-> date]

Ok(date) == Outcome(TRUE, FALSE, "", date)

Err(e) == Outcome(FALSE, FALSE, e, NoDate)

Panic(e) == Outcome(FALSE, TRUE, e, NoDate)

\* Date::new
DateNew(year, month, day) ==
    IF month > 12 THEN Err("Invalid month")
    ELSE IF month # 0 /\ day > MONTH_LENGTHS[month] THEN Err("Invalid day")
    ELSE Ok(MkDate(year, month, day))

\* usize::MAX, written as the largest integer the model's arithmetic holds
UsizeMax == 2147483647

\* a - b on usize: a panic (-1) under overflow checks, wrapping without them
UsizeSub(a, b, bld) ==
    IF a >= b THEN a - b
    ELSE IF bld = "debug" THEN -1
    ELSE UsizeMax - ((b - a) - 1)

\* MONTH_LENGTHS[self.month as usize - 1]: the length read, or -1 when the
\* subtraction or the bounds check of the index panics
MonthLengthOf(month, bld) ==
    LET i == UsizeSub(month, 1, bld)
    IN  IF i < 0 \/ i >= Len(MONTH_LENGTHS) THEN -1 ELSE MONTH_LENGTHS[i + 1]

\* Result::unwrap
Unwrap(r) == IF r.ok THEN r ELSE Panic("unwrap")

\* Date::next. The right operand of && is evaluated only when day # 0.
DateNext(d, bld) ==
    LET len == IF d.day # 0 THEN MonthLengthOf(d.month, bld) ELSE 0
    IN  IF d.day # 0 /\ len < 0 THEN Panic("MONTH_LENGTHS")
        ELSE IF d.day # 0 /\ d.day < len
        THEN Unwrap(DateNew(d.year, d.month, d.day + 1))
        ELSE IF d.month # 0 /\ d.month < 12
        THEN Unwrap(DateNew(d.year, d.month + 1, 0))
        ELSE Unwrap(DateNew(d.year + 1, 0, 0))

\* derive(PartialOrd, Ord) on Date: lexicographic on year, month, day
DateLt(a, b) ==
    \/ a.year < b.year
    \/ a.year = b.year /\ a.month < b.month
    \/ a.year = b.year /\ a.month = b.month /\ a.day < b.day

DateLeq(a, b) == a = b \/ DateLt(a, b)

\* ---------------------------------------------------------------- Date::parse

At(s, i) == IF i >= 1 /\ i <= Len(s) THEN s[i] ELSE ""

RECURSIVE SpaceRun(_, _)
\* the number of whitespace characters from position i on
SpaceRun(s, i) == IF IsSpace(At(s, i)) THEN 1 + SpaceRun(s, i + 1) ELSE 0

DigitsAt(s, i, n) == \A k \in 0..(n - 1) : IsDigit(At(s, i + k))

\* (?i: ...): letters match in either case
Upper(c) ==
    CASE c = "a" -> "A" [] c = "b" -> "B" [] c = "c" -> "C"
      [] c = "d" -> "D" [] c = "e" -> "E" [] OTHER -> c

WordAt(s, i, w) == \A k \in 1..Len(w) : Upper(At(s, i + k - 1)) = w[k]

Caps(ok, era, year, month, day, end) ==
    [ok |-> ok, era |-> era, year |-> year, month |-> month, day |-> day,
     end |-> end]

NoMatch == Caps(FALSE, <<>>, <<>>, <<>>, <<>>, 0)

\* The regex crate matches leftmost-first: at every choice the alternatives
\* are tried in order (greedy ones longest first) and the first one the rest
\* of the pattern can complete is taken.
FirstOk(opts) ==
    LET I == {i \in DOMAIN opts : opts[i].ok}
    IN  IF I = {} THEN NoMatch
        ELSE opts[CHOOSE i \in I : \A j \in I : i <= j]

\* (?:\s+|$) at position i: the position after it, 0 when it does not match
TailEnd(s, i) ==
    LET n == SpaceRun(s, i)
    IN  IF n > 0 THEN i + n ELSE IF i = Len(s) + 1 THEN i ELSE 0

\* One alternative of (?:-(?<day>\d{1,2}))?, a day of n digits or (n = 0) no
\* day group, then (?:\s+|$)
DayOption(s, i, n) ==
    LET end == TailEnd(s, IF n = 0 THEN i ELSE i + 1 + n)
    IN  IF (n = 0 \/ (At(s, i) = "-" /\ DigitsAt(s, i + 1, n))) /\ end # 0
        THEN Caps(TRUE, <<>>, <<>>, <<>>, SubSeq(s, i + 1, i + n), end)
        ELSE NoMatch

\* (?:-(?<day>\d{1,2}))? and the rest of the pattern
DayGroup(s, i) == FirstOk([k \in 1..3 |-> DayOption(s, i, 3 - k)])

\* One alternative of (?:-(?<month>\d{1,2}))?, then the rest of the pattern
MonthOption(s, i, n) ==
    IF n = 0 \/ (At(s, i) = "-" /\ DigitsAt(s, i + 1, n))
    THEN [DayGroup(s, IF n = 0 THEN i ELSE i + 1 + n)
             EXCEPT !.month = SubSeq(s, i + 1, i + n)]
    ELSE NoMatch

\* (?:-(?<month>\d{1,2}))? and the rest of the pattern
MonthGroup(s, i) == FirstOk([k \in 1..3 |-> MonthOption(s, i, 3 - k)])

\* One alternative of (?<year>-?\d{1,4}): sign is 1 with the '-' and 0
\* without, n the number of digits; then the rest of the pattern
YearOption(s, i, sign, n) ==
    IF (sign = 1 => At(s, i) = "-") /\ DigitsAt(s, i + sign, n)
    THEN [MonthGroup(s, i + sign + n)
             EXCEPT !.year = SubSeq(s, i, i + sign + n - 1)]
    ELSE NoMatch

\* (?<year>-?\d{1,4}) and the rest of the pattern: '-' before no '-', more
\* digits before fewer
YearGroup(s, i) ==
    FirstOk([k \in 1..8 |->
                YearOption(s, i, IF k <= 4 THEN 1 ELSE 0, 4 - ((k - 1) % 4))])

\* \s* (greedy) and the rest of the pattern
SpacesThenYear(s, i) ==
    LET n == SpaceRun(s, i)
    IN  FirstOk([k \in 1..(n + 1) |-> YearGroup(s, i + n + 1 - k)])

\* the alternatives of (?<era>(?i:BCE|BC|CE|AD))? in the order they are tried
EraWords ==
    <<<<"B", "C", "E">>, <<"B", "C">>, <<"C", "E">>, <<"A", "D">>, <<>>>>

\* One alternative of the era group, then the rest of the pattern
EraOption(s, i, w) ==
    IF WordAt(s, i, w)
    THEN [SpacesThenYear(s, i + Len(w)) EXCEPT !.era = SubSeq(s, i, i + Len(w) - 1)]
    ELSE NoMatch

\* (?<era>(?i:BCE|BC|CE|AD))? and the rest of the pattern
EraGroup(s, i) == FirstOk([k \in DOMAIN EraWords |-> EraOption(s, i, EraWords[k])])

\* DATE_REGEX.captures: ^\s* and the rest of the pattern
Captures(s) ==
    LET n == SpaceRun(s, 1)
    IN  FirstOk([k \in 1..(n + 1) |-> EraGroup(s, 1 + n + 1 - k)])

\* A Result<(Date, usize), String>
Parsed(r, len) == [ok |-> r.ok, err |-> r.err, date |-> r.date, len |-> len]

\* Date::parse
DateParse(s) ==
    LET caps == Captures(s)
        y == ParseInt(caps.year)
        year == IF caps.era # <<>> /\ caps.era[1] \in {"B", "b"} THEN 0 - y ELSE y
        month == IF caps.month = <<>> THEN 0 ELSE ParseDigits(caps.month)
        day == IF caps.day = <<>> THEN 0 ELSE ParseDigits(caps.day)
    IN  IF ~caps.ok THEN Parsed(Err("Invalid date format"), 0)
        ELSE Parsed(DateNew(year, month, day), caps.end - 1)

\* Date::format
DateFormat(d, display_era) ==
    LET prefix == IF display_era
                  THEN IF d.year < 0 THEN <<"B", "C", "E", " ">>
                       ELSE <<" ", "C", "E", " ">>
                  ELSE <<>>
        year == PadLeft(IntToString(Abs(d.year)), 4, "0")
        two(n) == PadLeft(IntToString(n), 2, "0")
    IN  IF d.month = 0
        THEN prefix \o year \o <<" ", " ", " ", " ", " ", " ">>
        ELSE IF d.day = 0
        THEN prefix \o year \o <<"-">> \o two(d.month) \o <<" ", " ", " ">>
        ELSE prefix \o year \o <<"-">> \o two(d.month) \o <<"-">> \o two(d.day)

\* ---------------------------------------------------------------- Event

\* Event::new
MkEvent(date, description) == [date |-> date, description |-> description]

\* Event::parse, a Result<Event, String>
EventParse(line) ==
    LET p == DateParse(line)
    IN  [ok |-> p.ok, err |-> p.err,
         event |-> MkEvent(p.date, SubSeq(line, p.len + 1, Len(line)))]

\* Event::format_for_file
FormatForFile(e) == DateFormat(e.date, TRUE) \o <<" ">> \o e.description

\* derive(PartialOrd, Ord) on Event: by date, then by description
EventLt(a, b) ==
    \/ DateLt(a.date, b.date)
    \/ a.date = b.date /\ StrLt(a.description, b.description)

\* ---------------------------------------------------------------- WorldLine

\* WorldLine::from_file: every line is parsed, the first failure is returned
FromFileOf(lines) ==
    LET parsed == [i \in DOMAIN lines |-> EventParse(lines[i])]
    IN  IF \A i \in DOMAIN lines : parsed[i].ok
        THEN [ok |-> TRUE, events |-> [i \in DOMAIN lines |-> parsed[i].event]]
        ELSE [ok |-> FALSE, events |-> <<>>]

\* WorldLine::build_file with the empty separator, one line per event
BuildFile(evs) == [i \in DOMAIN evs |-> FormatForFile(evs[i])]

RECURSIVE SearchEarlyReturn(_, _, _)
\* binary_search_by, Rust 1.52 to 1.81; c[i + 1] is the comparison of element i
SearchEarlyReturn(c, left, right) ==
    IF left >= right THEN left
    ELSE LET mid == left + ((right - left) \div 2)
         IN  IF c[mid + 1] = "Less" THEN SearchEarlyReturn(c, mid + 1, right)
             ELSE IF c[mid + 1] = "Greater" THEN SearchEarlyReturn(c, left, mid)
             ELSE mid

RECURSIVE SearchBranchless(_, _, _)
\* binary_search_by, Rust 1.82 on
SearchBranchless(c, base, size) ==
    IF size = 0 THEN 0
    ELSE IF size > 1
    THEN LET half == size \div 2
             mid == base + half
         IN  SearchBranchless(c, IF c[mid + 1] = "Greater" THEN base ELSE mid,
                              size - half)
    ELSE IF c[base + 1] = "Less" THEN base + 1 ELSE base

\* binary_search_by(f).unwrap_or_else(|e| e): the index found or the
\* insertion point
BinarySearchBy(c, impl) ==
    IF impl = "early_return" THEN SearchEarlyReturn(c, 0, Len(c))
    ELSE SearchBranchless(c, 0, Len(c))

\* Ord::cmp on Event
EventCmp(a, b) ==
    IF EventLt(a, b) THEN "Less" ELSE IF EventLt(b, a) THEN "Greater" ELSE "Equal"

\* add_event with push in place of the sorted insertion
InsertionIndexAtEnd(evs, e, impl) == Len(evs)

\* the index add_event computes: self.events.binary_search(&event)
InsertionIndex(evs, e, impl) ==
    BinarySearchBy([i \in DOMAIN evs |-> EventCmp(evs[i], e)], impl)

\* Vec::insert one place too early (at the front when idx is 0)
InsertBefore(evs, idx, e) ==
    LET at == IF idx > 0 THEN idx - 1 ELSE 0
    IN  SubSeq(evs, 1, at) \o <<e>> \o SubSeq(evs, at + 1, Len(evs))

\* Vec::insert
InsertAt(evs, idx, e) ==
    SubSeq(evs, 1, idx) \o <<e>> \o SubSeq(evs, idx + 1, Len(evs))

\* first_geq with <= in place of <: the first event dated after the date
FirstGt(evs, date, impl) ==
    BinarySearchBy([i \in DOMAIN evs |->
                       IF DateLeq(evs[i].date, date) THEN "Less" ELSE "Greater"],
                   impl)

\* WorldLine::first_geq: partition_point(|e| e.date < *date), which the
\* standard library computes with binary_search_by
FirstGeq(evs, date, impl) ==
    BinarySearchBy([i \in DOMAIN evs |->
                       IF DateLt(evs[i].date, date) THEN "Less" ELSE "Greater"],
                   impl)

\* WorldLine::last_before
LastBefore(evs, date, impl) ==
    BinarySearchBy([i \in DOMAIN evs |->
                       IF DateLt(evs[i].date, date) THEN "Less" ELSE "Greater"],
                   impl)

\* What a print call did: it panicked, printed "No events", or printed the
\* events of an index interval with or without the era.
Printed(panic, none, era, evs) ==
    [panic |-> panic, no_events |-> none, show_era |-> era, printed |-> evs]

\* WorldLine::print_range: slicing panics when the interval is not one of
\* the vector
PrintRange(evs, start_idx, end_idx) ==
    IF start_idx > end_idx \/ end_idx > Len(evs)
    THEN Printed(TRUE, FALSE, FALSE, <<>>)
    ELSE IF start_idx = end_idx
    THEN Printed(FALSE, TRUE, FALSE, <<>>)
    ELSE Printed(FALSE, FALSE,
                 evs[start_idx + 1].date.year < 0 /\ evs[end_idx].date.year > 0,
                 SubSeq(evs, start_idx + 1, end_idx))

\* ---------------------------------------------------------------- inputs

\* the longest worldline file loaded, in lines
MaxLines == 2

\* the largest store an event is added to grows to
MaxEvents == 3

Descriptions == {<<"a">>, <<"b">>}

BCE44 == MkDate(-44, 0, 0)

Y2023 == MkDate(2023, 0, 0)

\* The lines a worldline file is made of: lines to_file wrote, a line
\* written by hand, and the empty line.
FileLines ==
    {FormatForFile(MkEvent(BCE44, <<"a">>)),
     FormatForFile(MkEvent(Y2023, <<"b">>)),
     FormatForFile(MkEvent(Y2023, <<"a">>)),
     FormatForFile(MkEvent(MkDate(2023, 5, 0), <<"a">>)),
     <<"b", "c", " ", "4", "4", "-", "3", "-", "1", "5", " ", "b">>,
     <<>>}

Files == UNION {[1..n -> FileLines] : n \in 0..MaxLines}

\* the events handed to add_event
AddEvents ==
    {MkEvent(BCE44, <<"a">>), MkEvent(Y2023, <<"a">>), MkEvent(Y2023, <<"b">>),
     MkEvent(MkDate(2023, 5, 31), <<"a">>)}

\* the date arguments of the Show command
ShowTexts ==
    {<<"B", "C", "E", " ", "4", "4">>,
     <<"2", "0", "2", "3">>,
     <<"2", "0", "2", "3", "-", "5">>,
     <<"2", "0", "2", "3", "-", "1", "2">>,
     <<"2", "0", "2", "3", "-", "5", "-", "3", "1">>,
     <<"2", "0", "2", "3", "-", "1", "2", "-", "3", "1">>,
     <<"2", "0", "2", "3", "-", "0", "-", "5">>,
     <<"x">>}

\* the date argument of the Add command
AddTexts ==
    {<<"B", "C", "E", " ", "4", "4">>,
     <<"2", "0", "2", "3">>,
     <<"2", "0", "2", "3", "-", "5", "-", "3", "1">>,
     <<"x">>}

\* main's parse_date on every argument: the Date, or exit(1)
ParsedArgs(texts) == {DateParse(t) : t \in texts}

ShowArgs == ParsedArgs(ShowTexts)

AddArgs == ParsedArgs(AddTexts)

\* ---------------------------------------------------------------- state

NoEvent == MkEvent(NoDate, <<>>)

NoArg == [kind |-> "none", year |-> 0, month |-> 0, day |-> 0, text |-> <<>>]

NoRet ==
    [op |-> "none", ok |-> FALSE, panic |-> FALSE, err |-> "", date |-> NoDate,
     text |-> <<>>, len |-> 0]

NoCall ==
    [op |-> "none", pre |-> <<>>, event |-> NoEvent, start |-> NoDate,
     end |-> NoDate, next |-> NoDate, idx |-> 0, start_idx |-> 0,
     end_idx |-> 0, lb |-> 0, ub |-> 0, build |-> "", parsed |-> FALSE,
     saved |-> FALSE, panic |-> FALSE,
     out |-> Printed(FALSE, FALSE, FALSE, <<>>)]

Min(a, b) == IF a <= b THEN a ELSE b

Max(a, b) == IF a >= b THEN a ELSE b

\* ---------------------------------------------------------------- WorldLine calls

Init ==
    /\ file \in Files
    /\ pc = "start"
    /\ events = <<>>
    /\ last = NoCall
    /\ arg = NoArg
    /\ ret = NoRet

\* main: WorldLine::from_file(&worldline_file), or exit(1)
FromFile ==
    /\ pc = "start"
    /\ LET r == FromFileOf(file)
       IN  /\ pc' = IF r.ok THEN "loaded" ELSE "failed"
           /\ events' = r.events
    /\ last' = [NoCall EXCEPT !.op = "from_file"]
    /\ UNCHANGED <<file, arg, ret>>

\* WorldLine::add_event
AddEvent(e) ==
    /\ pc = "loaded"
    /\ Len(events) < MaxEvents
    /\ \E impl \in SearchImpls :
          LET idx == InsertionIndex(events, e, impl)
          IN  /\ events' = InsertAt(events, idx, e)
              /\ last' = [NoCall EXCEPT !.op = "add_event", !.pre = events,
                                        !.event = e, !.idx = idx]
    /\ UNCHANGED <<pc, file, arg, ret>>

\* WorldLine::print_date_range, as a call record and the state of the
\* process after it
DateRangeCall(op, start, end, impl, bld) ==
    LET start_idx == FirstGeq(events, start, impl)
        nx == DateNext(end, bld)
        end_idx == LastBefore(events, nx.date, impl)
        out == PrintRange(events, start_idx, end_idx)
        call == [NoCall EXCEPT !.op = op, !.pre = events, !.parsed = TRUE,
                               !.start = start, !.end = end,
                               !.start_idx = start_idx]
    IN  IF nx.panic
        THEN /\ last' = [call EXCEPT !.panic = TRUE]
             /\ pc' = "panicked"
        ELSE /\ last' = [call EXCEPT !.next = nx.date, !.end_idx = end_idx,
                                     !.panic = out.panic, !.out = out]
             /\ pc' = IF out.panic THEN "panicked" ELSE "exited"

\* main, Commands::Show with one date: print_implicit_date_range(date), which
\* is print_date_range(date.clone(), date)
CmdShowOne(p) ==
    /\ pc = "loaded"
    /\ IF ~p.ok
       THEN /\ pc' = "exited"
            /\ last' = [NoCall EXCEPT !.op = "print_implicit_date_range",
                                      !.pre = events]
       ELSE \E impl \in SearchImpls, bld \in Builds :
               DateRangeCall("print_implicit_date_range", p.date, p.date, impl, bld)
    /\ UNCHANGED <<file, events, arg, ret>>

\* main, Commands::Show with two dates: print_date_range(start, end)
CmdShowTwo(p, q) ==
    /\ pc = "loaded"
    /\ IF ~p.ok \/ ~q.ok
       THEN /\ pc' = "exited"
            /\ last' = [NoCall EXCEPT !.op = "print_date_range", !.pre = events]
       ELSE \E impl \in SearchImpls, bld \in Builds :
               DateRangeCall("print_date_range", p.date, q.date, impl, bld)
    /\ UNCHANGED <<file, events, arg, ret>>

\* main, Commands::Add: the whole handler, after which the process ends
CmdAdd(p, description) ==
    /\ pc = "loaded"
    /\ Len(events) < MaxEvents
    /\ \E impl \in SearchImpls, bld \in Builds, io \in BOOLEAN :
          LET e == MkEvent(p.date, description)
              idx == InsertionIndex(events, e, impl)
              added == InsertAt(events, idx, e)
              sub == UsizeSub(idx, 1, bld)
              lb == Max(0, sub)
              ub == Min(Len(added), idx + 2)
              out == PrintRange(added, lb, ub)
              call == [NoCall EXCEPT !.op = "cmd_add", !.pre = events,
                                     !.build = bld]
          IN  IF ~p.ok
              THEN \* parse_date: exit(1)
                   /\ pc' = "exited"
                   /\ last' = call
                   /\ UNCHANGED <<events, file>>
              ELSE IF sub < 0
              THEN \* idx - 1 overflows under overflow checks
                   /\ pc' = "panicked"
                   /\ events' = added
                   /\ last' = [call EXCEPT !.parsed = TRUE, !.event = e,
                                           !.idx = idx, !.panic = TRUE]
                   /\ UNCHANGED file
              ELSE /\ pc' = IF out.panic THEN "panicked" ELSE "exited"
                   /\ events' = added
                   \* to_file; a failed write is only warned about
                   /\ file' = IF io THEN BuildFile(added) ELSE file
                   /\ last' = [call EXCEPT !.parsed = TRUE, !.event = e,
                                           !.idx = idx, !.lb = lb, !.ub = ub,
                                           !.saved = io, !.panic = out.panic,
                                           !.out = out]
    /\ UNCHANGED <<arg, ret>>

Next ==
    \/ FromFile
    \/ \E e \in AddEvents : AddEvent(e)
    \/ \E p \in ShowArgs : CmdShowOne(p)
    \/ \E p \in ShowArgs, q \in ShowArgs : CmdShowTwo(p, q)
    \/ \E p \in AddArgs, description \in Descriptions : CmdAdd(p, description)

Spec == Init /\ [][Next]_vars

\* ---------------------------------------------------------------- Date calls

\* the arguments of Date::new: i32 years, u8 months and days
Years == {-9999, -44, -1, 0, 1, 2023, 9999}

Months == 0..13

Days == {0, 1, 5, 28, 29, 30, 31, 32}

YmdArgs ==
    {[kind |-> "ymd", year |-> y, month |-> m, day |-> d, text |-> <<>>] :
        y \in Years, m \in Months, d \in Days}

\* the arguments of Date::parse: an era, a gap, a sign, digits and a rest
Eras ==
    {<<>>, <<"B", "C", "E">>, <<"B", "C">>, <<"b", "c", "e">>, <<"b", "c">>,
     <<"C", "E">>, <<"A", "D">>, <<"c", "e">>}

Gaps == {<<>>, <<" ">>}

Signs == {<<>>, <<"-">>}

YearDigits == {<<"4", "4">>, <<"0", "0", "4", "4">>, <<"0">>}

Rests ==
    {<<>>, <<"-", "1", "2">>, <<"-", "1", "2", "-", "2", "5">>, <<" ", "x">>}

TextArgs ==
    {[kind |-> "text", year |-> 0, month |-> 0, day |-> 0,
      text |-> e \o g \o sg \o y \o r] :
        e \in Eras, g \in Gaps, sg \in Signs, y \in YearDigits, r \in Rests}

ArgDate == MkDate(arg.year, arg.month, arg.day)

Ret(op, r, text, len) ==
    [op |-> op, ok |-> r.ok, panic |-> r.panic, err |-> r.err, date |-> r.date,
     text |-> text, len |-> len]

InitDate ==
    /\ arg \in YmdArgs \cup TextArgs
    /\ ret = NoRet
    /\ pc = "start"
    /\ file = <<>>
    /\ events = <<>>
    /\ last = NoCall

\* Date::new(year, month, day)
CallNew ==
    /\ arg.kind = "ymd"
    /\ ret' = Ret("new", DateNew(arg.year, arg.month, arg.day), <<>>, 0)
    /\ UNCHANGED <<arg, pc, file, events, last>>

\* Date::new(year, month, day).unwrap().next()
CallNext ==
    /\ arg.kind = "ymd"
    /\ DateNew(arg.year, arg.month, arg.day).ok
    /\ \E bld \in Builds : ret' = Ret("next", DateNext(ArgDate, bld), <<>>, 0)
    /\ UNCHANGED <<arg, pc, file, events, last>>

\* Date::parse(&Date::new(year, month, day).unwrap().format(true))
CallFormatParse ==
    /\ arg.kind = "ymd"
    /\ DateNew(arg.year, arg.month, arg.day).ok
    /\ LET text == DateFormat(ArgDate, TRUE)
           p == DateParse(text)
       IN  ret' = Ret("format_parse", Outcome(p.ok, FALSE, p.err, p.date),
                      text, p.len)
    /\ UNCHANGED <<arg, pc, file, events, last>>

\* Date::parse(text)
CallParse ==
    /\ arg.kind = "text"
    /\ LET p == DateParse(arg.text)
       IN  ret' = Ret("parse", Outcome(p.ok, FALSE, p.err, p.date), arg.text, p.len)
    /\ UNCHANGED <<arg, pc, file, events, last>>

NextDate == CallNew \/ CallNext \/ CallFormatParse \/ CallParse

SpecDate == InitDate /\ [][NextDate]_vars

\* ---------------------------------------------------------------- properties

\* non-decreasing by Date at every adjacent pair
DateSorted(evs) ==
    \A i \in 1..(Len(evs) - 1) : DateLeq(evs[i].date, evs[i + 1].date)

\* non-decreasing in the order of Event
EventSorted(evs) ==
    \A i \in 1..(Len(evs) - 1) : ~EventLt(evs[i + 1], evs[i])

\* the number of stored events dated before d, and dated d or before
CountBefore(evs, d) == Cardinality({i \in DOMAIN evs : DateLt(evs[i].date, d)})

CountUpTo(evs, d) == Cardinality({i \in DOMAIN evs : DateLeq(evs[i].date, d)})

\* the store from_file returned for the file
LoadedStore == FromFileOf(file).events

Precision(d) ==
    IF d.month = 0 /\ d.day = 0 THEN "year"
    ELSE IF d.month # 0 /\ d.day = 0 THEN "month"
    ELSE IF d.month # 0 THEN "day"
    ELSE "other"

\* d cut down to the precision of p
CutTo(d, p) ==
    IF Precision(p) = "year" THEN MkDate(d.year, 0, 0)
    ELSE IF Precision(p) = "month" THEN MkDate(d.year, d.month, 0)
    ELSE d

\* the stored events dated from a to b, both included
EventsBetween(evs, a, b) ==
    LET Test(e) == DateLeq(a, e.date) /\ DateLeq(e.date, b)
    IN  SelectSeq(evs, Test)

\* the stored events dated a or later and before c
EventsFromUntil(evs, a, c) ==
    LET Test(e) == DateLeq(a, e.date) /\ DateLt(e.date, c)
    IN  SelectSeq(evs, Test)

\* the stored events dated a or later, up to the end of the period b names
EventsThroughPeriod(evs, a, b) ==
    LET Test(e) == DateLeq(a, e.date) /\ DateLeq(CutTo(e.date, b), b)
    IN  SelectSeq(evs, Test)

\* the stored events within the year, month or day that p names
EventsInPeriod(evs, p) ==
    LET Test(e) == CutTo(e.date, p) = p
    IN  SelectSeq(evs, Test)

AddCalled == last.op = "add_event" \/ (last.op = "cmd_add" /\ last.parsed)

\* C1: from a date-sorted store, every sequence of add_event calls leaves the
\* stored sequence non-decreasing by Date at every adjacent pair.
C1_AddEventKeepsDateOrder ==
    /\ (pc = "loaded" /\ DateSorted(LoadedStore)) => DateSorted(events)
    /\ (AddCalled /\ DateSorted(last.pre)) => DateSorted(events)

\* add_event ran on a loaded store of two events of one date, in an order
\* Event does not sort them in, with a third event of that date
C1_Witness ==
    /\ last.op = "add_event"
    /\ pc = "loaded"
    /\ last.pre = LoadedStore
    /\ Len(last.pre) = 2
    /\ DateSorted(last.pre)
    /\ ~EventSorted(last.pre)
    /\ last.event.date = last.pre[1].date
    /\ last.event.date = last.pre[2].date

\* C2 as stated: add_event returns the index the event is stored at, and when
\* no stored event equals it that index is the position of the first stored
\* event dated e.date or later, the value of first_geq(e.date) before the call.
C2_IndexIsDateLowerBound ==
    (last.op = "add_event" /\ DateSorted(last.pre)) =>
        /\ events[last.idx + 1] = last.event
        /\ (\A i \in DOMAIN last.pre : last.pre[i] # last.event) =>
              /\ last.idx = CountBefore(last.pre, last.event.date)
              /\ \A impl \in SearchImpls :
                    last.idx = FirstGeq(last.pre, last.event.date, impl)

\* C2 amended: add_event returns the index the event is stored at; the index
\* is at or after the first stored event dated e.date or later and at or
\* before the first one dated later than e.date; it is first_geq(e.date)
\* when no stored event has the date of e, and the length of the store when
\* every stored event is dated before e.
C2_IndexWithinEqualDates ==
    (last.op = "add_event" /\ DateSorted(last.pre)) =>
        /\ events[last.idx + 1] = last.event
        /\ CountBefore(last.pre, last.event.date) <= last.idx
        /\ last.idx <= CountUpTo(last.pre, last.event.date)
        /\ (\A i \in DOMAIN last.pre : last.pre[i].date # last.event.date) =>
              /\ last.idx = CountBefore(last.pre, last.event.date)
              /\ \A impl \in SearchImpls :
                    last.idx = FirstGeq(last.pre, last.event.date, impl)
        /\ (\A i \in DOMAIN last.pre : DateLt(last.pre[i].date, last.event.date)) =>
              last.idx = Len(last.pre)

\* add_event stored a new event after a stored event of the same date
C2_Witness ==
    /\ last.op = "add_event"
    /\ DateSorted(last.pre)
    /\ \A i \in DOMAIN last.pre : last.pre[i] # last.event
    /\ last.idx > CountBefore(last.pre, last.event.date)
    /\ events[last.idx + 1] = last.event

RangeCalled(op) ==
    /\ last.op = op
    /\ last.parsed
    /\ DateSorted(last.pre)

EqualPrecisionRange ==
    /\ RangeCalled("print_date_range")
    /\ DateLt(last.start, last.end)
    /\ Precision(last.start) = Precision(last.end)
    /\ Precision(last.start) # "other"

C4_NextCompletesAndGrows ==
    (ret.op = "next" /\ arg.year \in -9999..9999) =>
        /\ ~ret.panic
        /\ ret.ok
        /\ DateNew(ret.date.year, ret.date.month, ret.date.day).ok
        /\ DateLt(ArgDate, ret.date)

\* C5: for every Date of a four-digit year that Date::new accepts,
\* Date::parse(d.format(true)) succeeds and returns d.
C5_FormatParseRoundTrip ==
    (ret.op = "format_parse" /\ arg.year \in -9999..9999) =>
        /\ ret.ok
        /\ ret.date = ArgDate

HasEmptyLine(lines) == \E i \in DOMAIN lines : lines[i] = <<>>

NonEmptyLines(lines) ==
    LET Test(l) == l # <<>>
    IN  SelectSeq(lines, Test)

\* C6: from_file skips empty lines: a file of valid events and empty lines
\* loads, and yields one Event per non-empty line, in file order.
C6_EmptyLinesSkipped ==
    (/\ last.op = "from_file"
     /\ HasEmptyLine(file)
     /\ FromFileOf(NonEmptyLines(file)).ok) =>
        /\ pc = "loaded"
        /\ events = FromFileOf(NonEmptyLines(file)).events

\* C7: Date::parse on text whose era token starts with 'B' or 'b' returns a
\* year <= 0, with or without a '-' before the digits.
C7_EraBForcesYearNegative ==
    (/\ ret.op = "parse"
     /\ ret.ok
     /\ Captures(arg.text).era # <<>>
     /\ Captures(arg.text).era[1] \in {"B", "b"}) =>
        ret.date.year <= 0

\* C8: the Add command, for every store and every event, writes the store and
\* calls print_range with lb = max(0, idx - 1) and ub = min(len, idx + 2),
\* 0 <= lb <= idx < ub <= len, and print_range does not fail.
C8_AddPrintsWindow ==
    (last.op = "cmd_add" /\ last.parsed) =>
        /\ ~last.panic
        /\ last.lb = Max(0, last.idx - 1)
        /\ last.ub = Min(Len(events), last.idx + 2)
        /\ 0 <= last.lb /\ last.lb <= last.idx
        /\ last.idx < last.ub /\ last.ub <= Len(events)
        /\ last.out.printed = SubSeq(events, last.lb + 1, last.ub)

\* C9: for a date-sorted store and a date from Date::parse,
\* print_implicit_date_range prints exactly the stored events within the
\* year, month or day the date names, those dated d or later and before d.next().
C9_ImplicitRangeIsPeriod ==
    RangeCalled("print_implicit_date_range") =>
        /\ ~last.panic
        /\ last.out.printed = EventsInPeriod(last.pre, last.start)
        /\ last.out.printed = EventsFromUntil(last.pre, last.start, last.next)

\* C10: for a date-sorted store and two dates from Date::parse, in either
\* order, print_date_range hands print_range an interval with
\* 0 <= start_idx <= end_idx <= len, and print_range does not fail on it.
C10_RangeIsValidSlice ==
    (RangeCalled("print_date_range") /\ (last.panic => last.out.panic)) =>
        /\ 0 <= last.start_idx
        /\ last.start_idx <= last.end_idx
        /\ last.end_idx <= Len(last.pre)
        /\ ~last.out.panic

====
